---- MODULE Spec2Model ----
(***************************************************************************)
(* Model of pubmed_downloader.py (PubmedDownloader, HTTP) and              *)
(* pubmed_downloader_ftp.py (FTPDownloader, FTP): main() runs discovery,   *)
(* filtering and the thread-pool download of the filtered items.           *)
(*                                                                         *)
(* Strings are sequences of one-character strings.  The token "H" stands   *)
(* for the scheme and host of an absolute URL ("http://host"); the         *)
(* alphabet holds no ".", "?" or "#", so urljoin does no normalisation.    *)
(***************************************************************************)
EXTENDS Integers, Sequences, FiniteSets, TLC

VARIABLES
    backend,        \* "http": pubmed_downloader.py, "ftp": pubmed_downloader_ftp.py
    dest,           \* the directory `path`: "missing", "readonly" or "writable"
    threads,        \* the threads argument of main
    progressbar,    \* the progressbar argument of download_urls / download_files
    mpc,            \* position of the main thread
    err,            \* exception that ended main: "none", "config", "discovery"
    rootResp,       \* what discovery met: "none", "ok", "non200", "unreachable", "loginfail"
    start_url,      \* self.start_url / self.cwd
    links,          \* self._links: the raw hrefs (HTTP)
    all_urls,       \* self.all_urls / self.all_fileNames
    filtered_urls,  \* self.filtered_urls / self.filtered_fileNames
    failed_urls,    \* self.failed_urls (HTTP)
    reg_ex,         \* self.reg_ex
    filterReported, \* msg.info('Found ... left after filtering') was printed
    fut,            \* per submitted item: position of its download_file invocation
    attempts,       \* per item: attempt_number of the retry call in progress, or
                    \* of the RetryError that ended it; FTP: sessions opened
    resp,           \* per item: the local `response` ("none", "200", "404")
    fault,          \* per item: its own download_file met a failure
    files,          \* the destination directory: basename -> content
    collected,      \* futures already yielded by as_completed
    completed,      \* completed count of the progress task
    events,         \* number of progress.update calls
    sess,           \* per item: the FTP session its download_file created (0: none)
    openSess,       \* the FTP sessions that are open
    nSess,          \* number of FTP sessions created so far
    calls           \* methods the caller has called beyond main's sequence

vars == <<backend, dest, threads, progressbar, mpc, err, rootResp, start_url,
          links, all_urls, filtered_urls, failed_urls, reg_ex, filterReported, fut,
          attempts, resp, fault, files, collected, completed, events,
          sess, openSess, nSess, calls>>

\* the FTP sessions
sessVars == <<sess, openSess, nSess>>

----------------------------------------------------------------------------
(* Bounds of the model *)
MaxLinks == 2
MaxThreads == 2
MaxCalls == 1

(* stop_after_attempt(6) *)
MaxAttempts == 6

----------------------------------------------------------------------------
(* Strings *)

Chars == {"/", "H", "a", "b", "d"}

\* code point order of the characters ('/' < 'H' < 'a' < 'b' < 'd')
Ord(c) == CASE c = "/" -> 47 [] c = "H" -> 72 [] c = "a" -> 97
            [] c = "b" -> 98 [] c = "d" -> 100

\* s < t for Python strings
RECURSIVE StrLess(_, _)
StrLess(s, t) ==
    IF t = <<>> THEN FALSE
    ELSE IF s = <<>> THEN TRUE
    ELSE IF Head(s) # Head(t) THEN Ord(Head(s)) < Ord(Head(t))
    ELSE StrLess(Tail(s), Tail(t))

\* s.startswith(p)
StartsWith(s, p) == Len(p) <= Len(s) /\ SubSeq(s, 1, Len(p)) = p

\* index of the last "/" of s, 0 when there is none
LastSlash(s) ==
    LET I == {i \in 1..Len(s) : s[i] = "/"}
    IN  IF I = {} THEN 0 ELSE CHOOSE i \in I : \A j \in I : j <= i

\* url.split("/")[-1]
Basename(s) == SubSeq(s, LastSlash(s) + 1, Len(s))

\* urljoin(base, href)
urljoin(base, href) ==
    IF href = <<>> THEN base
    ELSE IF Head(href) = "H" THEN href
    ELSE IF Head(href) = "/" THEN <<"H">> \o href
    ELSE SubSeq(base, 1, LastSlash(base)) \o href

\* sorted(list of strings)
RECURSIVE Insert(_, _)
Insert(x, s) ==
    IF s = <<>> THEN <<x>>
    ELSE IF StrLess(x, Head(s)) THEN <<x>> \o s
    ELSE <<Head(s)>> \o Insert(x, Tail(s))

RECURSIVE sorted(_)
sorted(s) == IF s = <<>> THEN <<>> ELSE Insert(Head(s), sorted(Tail(s)))

\* the elements of s from index i on whose index is in K, in order
RECURSIVE SelectIdx(_, _, _)
SelectIdx(s, K, i) ==
    IF i > Len(s) THEN <<>>
    ELSE (IF i \in K THEN <<s[i]>> ELSE <<>>) \o SelectIdx(s, K, i + 1)

\* number of occurrences of x in s
Count(s, x) == Cardinality({i \in 1..Len(s) : s[i] = x})

----------------------------------------------------------------------------
(* Regular expressions: a literal, optionally followed by "$" *)

Patterns ==
    { [lit |-> <<>>, eol |-> FALSE],          \* ""
      [lit |-> <<"a">>, eol |-> FALSE],       \* "a"
      [lit |-> <<"a">>, eol |-> TRUE] }       \* "a$"

\* re_obj.search(s) is not None: the pattern matches somewhere in s
re_search(p, s) ==
    \E k \in 0..Len(s) :
        /\ StartsWith(SubSeq(s, k + 1, Len(s)), p.lit)
        /\ p.eol => k + Len(p.lit) = Len(s)

\* re_obj.match(s) is not None: the pattern matches at position 0 of s
re_match(p, s) ==
    /\ StartsWith(s, p.lit)
    /\ p.eol => Len(s) = Len(p.lit)

----------------------------------------------------------------------------
(* What the remote side can hold *)

\* the root: main's url argument / host_wd
RootUrl == <<"H", "/">>

\* href attributes of the root page
Hrefs == { <<"a">>, <<"b">>, <<"d", "/", "a">> }

\* URLs the server has no file for: it answers them with status 404
Gone == { <<"H", "/", "d", "/", "a">> }

\* response.status_code of a GET of url that got a response
StatusOf(url) == IF url \in Gone THEN "404" ELSE "200"

\* names of the FTP directory
FileNames == { <<"a">>, <<"b">>, <<"a", "b">> }

SeqsUpTo(S, n) == UNION { [1..k -> S] : k \in 0..n }

\* soup.find_all("a", href=True): document order, duplicates kept
Pages == SeqsUpTo(Hrefs, MaxLinks)

\* ftp_client.nlst(): the names of a directory, in the server's order
Listings == { s \in SeqsUpTo(FileNames, MaxLinks) :
                \A i, j \in 1..Len(s) : i # j => s[i] # s[j] }

\* the names a run can give a local file
LocalNames == {Basename(urljoin(RootUrl, h)) : h \in Hrefs} \cup FileNames

\* content of a local file: st is "absent", "empty", "partial", "complete"
\* (the whole body of one item) or "mixed" (bytes of two bodies), by is the
\* item whose download_file opened or wrote it last
Absent == [st |-> "absent", by |-> 0]

\* self.reg_ex before filter_urls / filter_files has set it
NoPattern == [lit |-> <<>>, eol |-> FALSE, unset |-> TRUE]

N == Len(filtered_urls)
Items == 1..Len(fut)

\* states of a future that has ended
Ended == {"returned", "raised"}
\* states of a download_file invocation that a worker is executing
HttpRunning == {"get", "open", "write"}
FtpRunning == {"connect", "ftpopen", "retr"}
Running == {i \in Items : fut[i] \in HttpRunning \cup FtpRunning}

----------------------------------------------------------------------------
(* main *)

Init ==
    /\ backend \in {"http", "ftp"}
    /\ dest \in {"missing", "readonly", "writable"}
    /\ threads \in 1..MaxThreads
    /\ progressbar = FALSE
    /\ mpc = "start"
    /\ err = "none"
    /\ rootResp = "none"
    /\ start_url = <<>>
    /\ links = <<>>
    /\ all_urls = <<>>
    /\ filtered_urls = <<>>
    /\ failed_urls = <<>>
    /\ reg_ex = NoPattern
    /\ filterReported = FALSE
    /\ fut = <<>>
    /\ attempts = <<>>
    /\ resp = <<>>
    /\ fault = <<>>
    /\ files = [b \in LocalNames |-> Absent]
    /\ collected = {}
    /\ completed = 0
    /\ events = 0
    /\ sess = <<>>
    /\ openSess = {}
    /\ nSess = 0
    /\ calls = 0

\* os.path.isdir(path)
isdir(d) == d # "missing"

\* main leaving progressbar at its default
MainProgressbar_default == FALSE

\* the value main passes for progressbar
MainProgressbar == TRUE

\* main up to the construction of the downloader; FTPDownloader.set_download_dir
\* repeats the same test
CheckDir ==
    /\ mpc = "start"
    /\ IF ~isdir(dest)
          THEN mpc' = "fatal" /\ err' = "config"
          ELSE mpc' = "find" /\ UNCHANGED err
    /\ UNCHANGED <<backend, dest, threads, progressbar, rootResp, start_url,
                   links, all_urls, filtered_urls, failed_urls, reg_ex,
                   filterReported, fut, attempts, resp, fault, files,
                   collected, completed, events>>
    /\ UNCHANGED sessVars
    /\ UNCHANGED calls

\* PubmedDownloader.find_urls(url)
find_urls ==
    /\ mpc = "find" /\ backend = "http"
    /\ start_url' = RootUrl
    /\ \/ \* requests.get raises: the exception leaves main
          /\ rootResp' = "unreachable"
          /\ mpc' = "fatal" /\ err' = "discovery"
          /\ UNCHANGED <<links, all_urls>>
       \/ \* status_code != 200: logging.error, return None
          /\ rootResp' = "non200"
          /\ mpc' = "filter"
          /\ UNCHANGED <<err, links, all_urls>>
       \/ \E page \in Pages :
          /\ rootResp' = "ok"
          /\ links' = page
          /\ all_urls' = [i \in 1..Len(page) |-> urljoin(RootUrl, page[i])]
          /\ mpc' = "filter"
          /\ UNCHANGED err
    /\ UNCHANGED <<backend, dest, threads, progressbar, filtered_urls,
                   failed_urls, reg_ex, filterReported, fut, attempts, resp,
                   fault, files, collected, completed, events>>
    /\ UNCHANGED sessVars
    /\ UNCHANGED calls

\* FTP(self._host): a new client object with a connection of its own
NewSession == nSess + 1

\* the client left open: no with block around the session
ftp_exit_leak(S, k) == S

\* the end of `with FTP(...) as ftp_client`: session k is closed (quit, or
\* close after an exception)
ftp_exit(S, k) == S \ {k}

\* FTPDownloader.find_files(starting_dir)
find_files ==
    /\ mpc = "find" /\ backend = "ftp"
    /\ start_url' = RootUrl
    /\ \/ \* FTP(host) raises
          /\ rootResp' = "unreachable"
          /\ mpc' = "fatal" /\ err' = "discovery"
          /\ UNCHANGED <<all_urls, openSess, nSess>>
       \/ \* login() or cwd() raises, the with block closes the session
          /\ rootResp' = "loginfail"
          /\ mpc' = "fatal" /\ err' = "discovery"
          /\ nSess' = nSess + 1
          /\ openSess' = ftp_exit(openSess \cup {NewSession}, NewSession)
          /\ UNCHANGED all_urls
       \/ \E listing \in Listings :
          /\ rootResp' = "ok"
          /\ all_urls' = sorted(listing)
          /\ nSess' = nSess + 1
          /\ openSess' = ftp_exit(openSess \cup {NewSession}, NewSession)
          /\ mpc' = "filter"
          /\ UNCHANGED err
    /\ UNCHANGED sess
    /\ UNCHANGED <<backend, dest, threads, progressbar, links, filtered_urls,
                   failed_urls, reg_ex, filterReported, fut, attempts, resp,
                   fault, files, collected, completed, events>>
    /\ UNCHANGED calls

\* the test written with re.search instead of re.match
Matches_search(p, raw) == re_search(p, raw)

\* the test of the list comprehension of filter_urls / filter_files
Matches(p, raw) == re_match(p, raw)

\* PubmedDownloader.filter_urls(reg_ex)
filter_urls ==
    /\ mpc = "filter" /\ backend = "http"
    /\ \E p \in Patterns :
          /\ reg_ex' = p
          /\ filtered_urls' =
                LET K == {i \in 1..Len(links) : Matches(p, links[i])}
                    kept == SelectIdx(links, K, 1)
                IN  [i \in 1..Len(kept) |-> urljoin(start_url, kept[i])]
    /\ mpc' = "report"
    /\ UNCHANGED <<backend, dest, threads, progressbar, err, rootResp,
                   start_url, links, all_urls, failed_urls, filterReported,
                   fut, attempts, resp, fault, files, collected, completed,
                   events>>
    /\ UNCHANGED sessVars
    /\ UNCHANGED calls

\* FTPDownloader.filter_files(reg_ex)
filter_files ==
    /\ mpc = "filter" /\ backend = "ftp"
    /\ \E p \in Patterns :
          /\ reg_ex' = p
          /\ filtered_urls' =
                SelectIdx(all_urls,
                          {i \in 1..Len(all_urls) : Matches(p, all_urls[i])}, 1)
    /\ mpc' = "report"
    /\ UNCHANGED <<backend, dest, threads, progressbar, err, rootResp,
                   start_url, links, all_urls, failed_urls, filterReported,
                   fut, attempts, resp, fault, files, collected, completed,
                   events>>
    /\ UNCHANGED sessVars
    /\ UNCHANGED calls

\* msg.info('Found ... on starting url, ... left after filtering')
Report ==
    /\ mpc = "report"
    /\ filterReported' = TRUE
    /\ mpc' = "download"
    /\ UNCHANGED <<backend, dest, threads, progressbar, err, rootResp,
                   start_url, links, all_urls, filtered_urls, failed_urls,
                   reg_ex, fut, attempts, resp, fault, files, collected,
                   completed, events>>
    /\ UNCHANGED sessVars
    /\ UNCHANGED calls

----------------------------------------------------------------------------
(* download_urls / download_files: the main thread *)

\* the empty test left out: the executor is built for an empty list
NothingToDownload_never == FALSE

\* `if not self.filtered_urls:` / `if not self.filtered_fileNames:`
NothingToDownload == filtered_urls = <<>>

\* entry of download_urls / download_files: the empty test, the executor and
\* the progress task
DownloadStart ==
    /\ mpc = "download"
    /\ progressbar' = MainProgressbar
    /\ mpc' = IF NothingToDownload THEN "returned" ELSE "submit"
    /\ UNCHANGED <<backend, dest, threads, err, rootResp, start_url, links,
                   all_urls, filtered_urls, failed_urls, reg_ex,
                   filterReported, fut, attempts, resp, fault, files,
                   collected, completed, events>>
    /\ UNCHANGED sessVars
    /\ UNCHANGED calls

\* one executor.submit of the list comprehension, in the order of the list
Submit ==
    /\ mpc = "submit"
    /\ Len(fut) < N
    /\ fut' = Append(fut, "queued")
    /\ attempts' = Append(attempts, 0)
    /\ resp' = Append(resp, "none")
    /\ fault' = Append(fault, FALSE)
    /\ sess' = Append(sess, 0)
    /\ UNCHANGED <<openSess, nSess>>
    /\ mpc' = IF Len(fut) + 1 = N THEN "collect" ELSE "submit"
    /\ UNCHANGED <<backend, dest, threads, progressbar, err, rootResp,
                   start_url, links, all_urls, filtered_urls, failed_urls,
                   reg_ex, filterReported, files, collected, completed,
                   events>>
    /\ UNCHANGED calls

\* the loop body calling future.result(): the exception of a failed
\* download_file leaves download_urls
LoopBody_result(i) == IF fut[i] = "raised" THEN "fatal" ELSE "collect"

\* what the body of the as_completed loop does with the future it was given:
\* it never asks for the result, so the loop goes on
LoopBody(i) == "collect"

\* one turn of `for future in concurrent.futures.as_completed(futures)`
Collect ==
    /\ mpc = "collect"
    /\ \E i \in Items \ collected :
          /\ fut[i] \in Ended
          /\ collected' = collected \cup {i}
          /\ mpc' = LoopBody(i)
          /\ err' = IF LoopBody(i) = "fatal" THEN "fetch" ELSE err
    /\ IF progressbar
          THEN completed' = completed + 1 /\ events' = events + 1
          ELSE UNCHANGED <<completed, events>>
    /\ UNCHANGED <<backend, dest, threads, progressbar, rootResp, start_url,
                   links, all_urls, filtered_urls, failed_urls, reg_ex,
                   filterReported, fut, attempts, resp, fault, files>>
    /\ UNCHANGED sessVars
    /\ UNCHANGED calls

\* leaving without waiting: no as_completed loop and shutdown(wait=False)
AllDone_nowait == TRUE

\* as_completed has yielded every future and shutdown(wait=True) has joined
\* the workers
AllDone == collected = Items /\ \A i \in Items : fut[i] \in Ended

\* the end of the loop, the exit of both with blocks (shutdown(wait=True))
\* and logging.info('Download finished')
DownloadReturn ==
    /\ mpc = "collect"
    /\ AllDone
    /\ mpc' = "returned"
    /\ UNCHANGED <<backend, dest, threads, progressbar, err, rootResp,
                   start_url, links, all_urls, filtered_urls, failed_urls,
                   reg_ex, filterReported, fut, attempts, resp, fault, files,
                   collected, completed, events>>
    /\ UNCHANGED sessVars
    /\ UNCHANGED calls

\* msg.good('Download finished in ...'), the last statement of main
MsgGood ==
    /\ mpc = "returned"
    /\ mpc' = "done"
    /\ UNCHANGED <<backend, dest, threads, progressbar, err, rootResp,
                   start_url, links, all_urls, filtered_urls, failed_urls,
                   reg_ex, filterReported, fut, attempts, resp, fault, files,
                   collected, completed, events>>
    /\ UNCHANGED sessVars
    /\ UNCHANGED calls

----------------------------------------------------------------------------
(* The workers of ThreadPoolExecutor(max_workers=threads) *)

\* a thread per work item, whatever max_workers says
WorkerFree_unbounded == TRUE

\* a worker thread is idle, or may still be created
WorkerFree == Cardinality(Running) < threads

\* a worker takes the oldest work item of the queue and calls download_file
Start(i) ==
    /\ fut[i] = "queued"
    /\ \A j \in Items : j < i => fut[j] # "queued"
    /\ WorkerFree
    /\ fut' = [fut EXCEPT ![i] = IF backend = "http" THEN "get" ELSE "connect"]
    /\ UNCHANGED <<backend, dest, threads, progressbar, mpc, err, rootResp,
                   start_url, links, all_urls, filtered_urls, failed_urls,
                   reg_ex, filterReported, attempts, resp, fault, files,
                   collected, completed, events>>
    /\ UNCHANGED sessVars
    /\ UNCHANGED calls

\* the attempt counter starting over instead of reaching the stop test
attempt_number_wrap(n) == (n + 1) % MaxAttempts

\* tenacity's attempt_number once one more attempt has failed
attempt_number(n) == n + 1

\* the stop test off by one: a seventh attempt
stop_after_attempt_late(n) == n > MaxAttempts

\* stop=stop_after_attempt(6): no retry after attempt number n
stop_after_attempt(n) == n >= MaxAttempts

\* open(..., "wb") raises: the directory cannot be written, or the name is
\* empty and the path is the directory itself
OpenFails(b) == dest # "writable" \/ b = <<>>

\* PubmedDownloader.download_file: one call of requests.get under @retry
GetAttempt(i) ==
    /\ fut[i] = "get"
    /\ \/ \* a response, whatever its status code: the retry call returns it
          \* and its state is dropped
          /\ resp' = [resp EXCEPT ![i] = StatusOf(filtered_urls[i])]
          /\ fut' = [fut EXCEPT ![i] = "open"]
          /\ attempts' = [attempts EXCEPT ![i] = 0]
          /\ UNCHANGED <<failed_urls, fault>>
       \/ \* transport error or timeout
          /\ attempts' = [attempts EXCEPT ![i] = attempt_number(@)]
          /\ IF stop_after_attempt(attempt_number(attempts[i]))
               THEN \* RetryError, caught by the bare except
                    /\ failed_urls' = Append(failed_urls, filtered_urls[i])
                    /\ fut' = [fut EXCEPT ![i] = "returned"]
                    /\ fault' = [fault EXCEPT ![i] = TRUE]
                    /\ UNCHANGED resp
               ELSE UNCHANGED <<failed_urls, fut, fault, resp>>
    /\ UNCHANGED <<backend, dest, threads, progressbar, mpc, err, rootResp,
                   start_url, links, all_urls, filtered_urls, reg_ex,
                   filterReported, files, collected, completed, events>>
    /\ UNCHANGED sessVars
    /\ UNCHANGED calls

\* PubmedDownloader.download_file: open(path.joinpath(filename), "wb")
HttpOpen(i) ==
    /\ fut[i] = "open"
    /\ LET b == Basename(filtered_urls[i])
       IN  IF OpenFails(b)
             THEN /\ fut' = [fut EXCEPT ![i] = "raised"]
                  /\ fault' = [fault EXCEPT ![i] = TRUE]
                  /\ UNCHANGED files
             ELSE /\ fut' = [fut EXCEPT ![i] = "write"]
                  /\ files' = [files EXCEPT ![b] = [st |-> "empty", by |-> i]]
                  /\ UNCHANGED fault
    /\ UNCHANGED <<backend, dest, threads, progressbar, mpc, err, rootResp,
                   start_url, links, all_urls, filtered_urls, failed_urls,
                   reg_ex, filterReported, attempts, resp, collected,
                   completed, events>>
    /\ UNCHANGED sessVars
    /\ UNCHANGED calls

\* logging.info(f'Written {filename} to {path+"/"+filename}'): path is a Path
\* by now, Path + str raises TypeError
LogWritten == "raised"

\* what file.write(content) of item i can leave in file b: the handle writes
\* from offset 0 without truncating, so bytes that another handle wrote
\* since the open stay behind the body when they reach further
WriteResults(i, b) ==
    IF \/ files[b].st = "mixed"
       \/ files[b].st = "complete" /\ filtered_urls[files[b].by] # filtered_urls[i]
      THEN {"complete", "mixed"}
      ELSE {"complete"}

\* PubmedDownloader.download_file: file.write(content), the end of the with
\* block and the log line after it
HttpWrite(i) ==
    /\ fut[i] = "write"
    /\ \E st \in WriteResults(i, Basename(filtered_urls[i])) :
          files' = [files EXCEPT ![Basename(filtered_urls[i])] =
                      [st |-> st, by |-> i]]
    /\ fut' = [fut EXCEPT ![i] = LogWritten]
    /\ UNCHANGED <<backend, dest, threads, progressbar, mpc, err, rootResp,
                   start_url, links, all_urls, filtered_urls, failed_urls,
                   reg_ex, filterReported, attempts, resp, fault, collected,
                   completed, events>>
    /\ UNCHANGED sessVars
    /\ UNCHANGED calls

\* FTPDownloader.download_file: FTP(host), login() and cwd(), once
FtpConnect(i) ==
    /\ fut[i] = "connect"
    /\ attempts' = [attempts EXCEPT ![i] = @ + 1]
    /\ \/ \* the session is open and in the directory
          /\ fut' = [fut EXCEPT ![i] = "ftpopen"]
          /\ sess' = [sess EXCEPT ![i] = NewSession]
          /\ nSess' = nSess + 1
          /\ openSess' = openSess \cup {NewSession}
          /\ UNCHANGED fault
       \/ \* FTP(host) raises: there is no session
          /\ fut' = [fut EXCEPT ![i] = "raised"]
          /\ fault' = [fault EXCEPT ![i] = TRUE]
          /\ UNCHANGED sessVars
       \/ \* login() or cwd() raises, the with block closes the session
          /\ fut' = [fut EXCEPT ![i] = "raised"]
          /\ fault' = [fault EXCEPT ![i] = TRUE]
          /\ sess' = [sess EXCEPT ![i] = NewSession]
          /\ nSess' = nSess + 1
          /\ openSess' = ftp_exit(openSess \cup {NewSession}, NewSession)
    /\ UNCHANGED <<backend, dest, threads, progressbar, mpc, err, rootResp,
                   start_url, links, all_urls, filtered_urls, failed_urls,
                   reg_ex, filterReported, resp, files, collected, completed,
                   events>>
    /\ UNCHANGED calls

\* FTPDownloader.download_file: open(self.download_dir.joinpath(filename), "wb")
FtpOpen(i) ==
    /\ fut[i] = "ftpopen"
    /\ LET b == filtered_urls[i]
       IN  IF OpenFails(b)
             THEN /\ fut' = [fut EXCEPT ![i] = "raised"]
                  /\ fault' = [fault EXCEPT ![i] = TRUE]
                  /\ openSess' = ftp_exit(openSess, sess[i])
                  /\ UNCHANGED files
             ELSE /\ fut' = [fut EXCEPT ![i] = "retr"]
                  /\ files' = [files EXCEPT ![b] = [st |-> "empty", by |-> i]]
                  /\ UNCHANGED <<fault, openSess>>
    /\ UNCHANGED <<sess, nSess>>
    /\ UNCHANGED <<backend, dest, threads, progressbar, mpc, err, rootResp,
                   start_url, links, all_urls, filtered_urls, failed_urls,
                   reg_ex, filterReported, attempts, resp, collected,
                   completed, events>>
    /\ UNCHANGED calls

\* FTPDownloader.download_file: retrbinary hands one block that is not the
\* last to file.write
FtpRetrBlock(i) ==
    /\ fut[i] = "retr"
    /\ files[filtered_urls[i]].st = "empty"
    /\ files' = [files EXCEPT ![filtered_urls[i]] =
                    [st |-> "partial", by |-> i]]
    /\ UNCHANGED <<backend, dest, threads, progressbar, mpc, err, rootResp,
                   start_url, links, all_urls, filtered_urls, failed_urls,
                   reg_ex, filterReported, fut, attempts, resp, fault,
                   collected, completed, events>>
    /\ UNCHANGED sessVars
    /\ UNCHANGED calls

\* FTPDownloader.download_file: retrbinary returns, both with blocks end
FtpRetrDone(i) ==
    /\ fut[i] = "retr"
    /\ files' = [files EXCEPT ![filtered_urls[i]] =
                    [st |-> "complete", by |-> i]]
    /\ fut' = [fut EXCEPT ![i] = "returned"]
    /\ openSess' = ftp_exit(openSess, sess[i])
    /\ UNCHANGED <<backend, dest, threads, progressbar, mpc, err, rootResp,
                   start_url, links, all_urls, filtered_urls, failed_urls,
                   reg_ex, filterReported, attempts, resp, fault, collected,
                   completed, events, sess, nSess>>
    /\ UNCHANGED calls

\* FTPDownloader.download_file: retrbinary raises, the with blocks close the
\* file and the session and the exception goes to the future
FtpRetrFail(i) ==
    /\ fut[i] = "retr"
    /\ fut' = [fut EXCEPT ![i] = "raised"]
    /\ fault' = [fault EXCEPT ![i] = TRUE]
    /\ openSess' = ftp_exit(openSess, sess[i])
    /\ UNCHANGED <<backend, dest, threads, progressbar, mpc, err, rootResp,
                   start_url, links, all_urls, filtered_urls, failed_urls,
                   reg_ex, filterReported, attempts, resp, files, collected,
                   completed, events, sess, nSess>>
    /\ UNCHANGED calls

----------------------------------------------------------------------------
Next ==
    \/ CheckDir
    \/ find_urls
    \/ find_files
    \/ filter_urls
    \/ filter_files
    \/ Report
    \/ DownloadStart
    \/ Submit
    \/ Collect
    \/ DownloadReturn
    \/ MsgGood
    \/ \E i \in Items : Start(i)
    \/ \E i \in Items : GetAttempt(i)
    \/ \E i \in Items : HttpOpen(i)
    \/ \E i \in Items : HttpWrite(i)
    \/ \E i \in Items : FtpConnect(i)
    \/ \E i \in Items : FtpOpen(i)
    \/ \E i \in Items : FtpRetrBlock(i)
    \/ \E i \in Items : FtpRetrDone(i)
    \/ \E i \in Items : FtpRetrFail(i)

Spec == Init /\ [][Next]_vars

----------------------------------------------------------------------------
(* Vocabulary of the properties *)

\* the local file name of item i
LocalName(i) ==
    IF backend = "http" THEN Basename(filtered_urls[i]) ELSE filtered_urls[i]

\* download_urls / download_files has returned
SchedulerReturned == mpc \in {"returned", "done"}

\* the whole content of item i has arrived from the server
Transferred(i) ==
    IF backend = "http" THEN resp[i] # "none" ELSE fut[i] = "returned"

\* item i has the outcome Succeeded: its transfer is complete and its file is
\* there, whole
Succeeded(i) == Transferred(i) /\ files[LocalName(i)].st = "complete"

\* item i has the outcome Failed: its attempts were exhausted and the item
\* is in the list of failed items
Failed(i) ==
    /\ fut[i] \in Ended /\ ~Transferred(i)
    /\ \E k \in 1..Len(failed_urls) : failed_urls[k] = filtered_urls[i]

\* every attempt of HTTP item i failed and no attempt is left
Exhausted(i) == backend = "http" /\ fut[i] \in Ended /\ resp[i] = "none"

----------------------------------------------------------------------------
(* C1: when the scheduler returns, every item of the filtered set was      *)
(* submitted exactly once and has exactly one outcome, Succeeded (file     *)
(* written) or Failed (recorded as failed), never both and never neither.  *)
C1_ExactlyOneOutcome ==
    (SchedulerReturned /\ dest = "writable") =>
        /\ Len(fut) = N
        /\ \A i \in Items : fut[i] \in Ended /\ (Succeeded(i) # Failed(i))

(* C2: in every state the number of download_file invocations that have    *)
(* started and not ended is at most the threads argument; the other items  *)
(* wait in the queue.                                                       *)
C2_ConcurrencyBound == Cardinality(Running) <= threads

C2_Witness ==
    /\ Cardinality(Running) = threads
    /\ \E i \in Items : fut[i] = "queued"

(* C3: whatever items fail, every other item is fetched and its file is    *)
(* written, no future is cancelled, and the scheduler returns without      *)
(* raising.                                                                 *)
C3_FailureIsolation ==
    /\ err # "fetch"
    /\ mpc = "fatal" => fut = <<>>
    /\ SchedulerReturned =>
          /\ Len(fut) = N
          /\ \A i \in Items :
                /\ fut[i] \in Ended
                /\ ~fault[i] => files[LocalName(i)].st \in {"complete", "mixed"}

C3_Witness ==
    /\ mpc = "done"
    /\ \E i, j \in Items :
          /\ fault[i] /\ ~fault[j]
          /\ i < j
          /\ files[LocalName(j)] = [st |-> "complete", by |-> j]

(* C4: the HTTP fetcher stops at the first attempt that returns a          *)
(* response; when every attempt fails it makes exactly 6 attempts, puts    *)
(* the URL into failed_urls exactly once, writes no file and returns       *)
(* without an exception.                                                    *)
C4_HttpRetryBound ==
    backend = "http" =>
        /\ \A i \in Items :
              /\ attempts[i] <= MaxAttempts
              /\ fut[i] = "get" => attempts[i] < MaxAttempts /\ resp[i] = "none"
              /\ resp[i] # "none" => fut[i] \in {"open", "write", "raised"}
              /\ Exhausted(i) =>
                    /\ attempts[i] = MaxAttempts
                    /\ fut[i] = "returned"
                    /\ \A b \in LocalNames : files[b].by # i
        /\ \A u \in {filtered_urls[i] : i \in 1..N} \cup
                     {failed_urls[k] : k \in 1..Len(failed_urls)} :
              Count(failed_urls, u) =
                  Cardinality({i \in Items : filtered_urls[i] = u /\ Exhausted(i)})

C4_Witness ==
    /\ backend = "http"
    /\ \E i, j \in Items :
          /\ Exhausted(i) /\ attempts[i] = MaxAttempts
          /\ failed_urls = <<filtered_urls[i]>>
          /\ resp[j] # "none" /\ fut[j] \in Ended

(* C5: a transport failure of an FTP transfer is retried, up to 6 attempts *)
(* in all, and only the exhaustion of the attempts is the item's failure.  *)
C5_FtpRetry ==
    (backend = "ftp" /\ dest = "writable") =>
        \A i \in Items : fut[i] = "raised" => attempts[i] = MaxAttempts

(* C6: the destination file of an item is created or modified only after   *)
(* the item's transfer is complete; a transfer that failed leaves the name *)
(* absent or with a complete content, never truncated or partial.          *)
C6_WriteAfterTransfer ==
    \A b \in LocalNames :
        files[b].st # "absent" =>
            /\ Transferred(files[b].by)
            /\ fut[files[b].by] \in Ended => files[b].st = "complete"

(* C7: a discovery that fails (non-success status, unreachable root, FTP   *)
(* login or cwd failure) ends the run in a fatal discovery error: no       *)
(* filtering result is reported, no fetch is attempted and the run does    *)
(* not end with 'Download finished'.                                       *)
C7_DiscoveryFatal ==
    rootResp \in {"non200", "unreachable", "loginfail"} =>
        /\ ~filterReported
        /\ fut = <<>>
        /\ ~SchedulerReturned
        /\ mpc = "fatal" => err = "discovery"

(* C8: a destination directory that is missing or not writable ends the    *)
(* run in a configuration error before discovery and before any fetch, so  *)
(* no fetch fails because the destination cannot be written.               *)
C8_DestinationFirst ==
    dest # "writable" =>
        /\ mpc # "start" => mpc = "fatal" /\ err = "config"
        /\ rootResp = "none"
        /\ fut = <<>>

(* C9: after filtering with pattern p the filtered list is exactly the     *)
(* subsequence, in discovery order, of the raw discovery list made of the  *)
(* items whose raw identifier (href, FTP file name) p matches at position  *)
(* 0; it is no longer than the raw list and holds only discovered items.   *)
C9_FilterCorrect ==
    (mpc \notin {"start", "find", "filter", "fatal"}) =>
        LET raw(i) == IF backend = "http" THEN links[i] ELSE all_urls[i]
            Kept == {i \in 1..Len(all_urls) : re_match(reg_ex, raw(i))}
        IN  /\ Len(filtered_urls) = Cardinality(Kept)
            /\ Len(filtered_urls) <= Len(all_urls)
            /\ \A i \in Kept :
                  filtered_urls[Cardinality({j \in Kept : j <= i})] = all_urls[i]

C9_Witness ==
    /\ mpc = "report"
    /\ Len(all_urls) = 2
    /\ Len(filtered_urls) = 1
    /\ filtered_urls[1] = all_urls[2]

(* C10: in a run over a non-empty filtered set there is one progress event *)
(* per item outcome, after that outcome; the completed count never         *)
(* decreases, never exceeds the total and equals the total exactly once,   *)
(* when the last outcome is collected.                                      *)
C10_ProgressState ==
    /\ events = Cardinality(collected)
    /\ completed = events
    /\ completed <= N
    /\ \A i \in collected : i \in Items /\ fut[i] \in Ended
    /\ (completed = N /\ N > 0) => \A i \in 1..N : i \in Items /\ fut[i] \in Ended
    /\ (SchedulerReturned /\ N > 0) => completed = N

C10_ProgressStep ==
    /\ completed' >= completed
    /\ completed' # completed =>
          /\ completed' = completed + 1
          /\ completed # N
          /\ \E i \in Items : collected' = collected \cup {i} /\ i \notin collected

C11_FilesProduced ==
    (SchedulerReturned /\ dest = "writable") =>
        LET ok(i) == IF backend = "http" THEN resp[i] = "200"
                                         ELSE fut[i] = "returned"
        IN  \A b \in LocalNames :
                files[b].st # "absent" <=>
                    \E i \in Items : LocalName(i) = b /\ ok(i)

(* C12: with an empty filtered set download_urls / download_files returns  *)
(* at once without raising: no worker is started, no fetch and no network  *)
(* call is made, no file is written and no failure is recorded.            *)
C12_EmptyNoOp ==
    (filtered_urls = <<>> /\ mpc \in {"submit", "collect", "returned", "done"}) =>
        /\ SchedulerReturned
        /\ err = "none"
        /\ fut = <<>> /\ attempts = <<>>
        /\ collected = {} /\ events = 0
        /\ failed_urls = <<>>
        /\ \A b \in LocalNames : files[b] = Absent

C12_Witness ==
    /\ mpc = "done"
    /\ rootResp = "ok"
    /\ Len(all_urls) = 2
    /\ filtered_urls = <<>>

(* C13: once download_urls / download_files has returned ('Download        *)
(* finished'), no fetch of the run is in flight or still queued.           *)
C13_ReturnAfterAll ==
    SchedulerReturned =>
        \A i \in 1..N : i \in Items /\ fut[i] \in Ended

C13_Witness ==
    /\ mpc = "returned"
    /\ threads = 1
    /\ N = 2
    /\ \A i \in 1..N : i \in Items /\ fut[i] \in Ended

(* C14: every FTP download_file opens a session of its own and closes it   *)
(* before it ends, on success and on failure; no session serves two        *)
(* invocations, at most `threads` sessions are open at a time, and none is *)
(* open once download_files or find_files has returned.                    *)
C14_FtpSessions ==
    backend = "ftp" =>
        /\ \A i \in Items :
              /\ fut[i] \in {"ftpopen", "retr"} <=> sess[i] \in openSess
              /\ fut[i] \in {"ftpopen", "retr", "returned"} => sess[i] # 0
              /\ \A j \in Items : (i # j /\ sess[i] # 0) => sess[i] # sess[j]
        /\ openSess \subseteq {sess[i] : i \in Items}
        /\ Cardinality(openSess) <= threads
        /\ SchedulerReturned => openSess = {}

C14_Witness ==
    /\ backend = "ftp"
    /\ \E i, j \in Items :
          /\ fut[i] = "raised" /\ sess[i] # 0
          /\ fut[j] = "retr" /\ openSess = {sess[j]}
          /\ j < i

----------------------------------------------------------------------------
(* Fair scheduling: the main thread goes on while it can, and so does     *)
(* every worker thread that has a work item                               *)

\* the steps of download_urls / download_files in the main thread
Scheduler == DownloadStart \/ Submit \/ Collect \/ DownloadReturn

\* the steps of the HTTP download_file invocation of work item i
Worker(i) ==
    /\ i \in Items
    /\ Start(i) \/ GetAttempt(i) \/ HttpOpen(i) \/ HttpWrite(i)

FairSpec ==
    /\ Spec
    /\ WF_vars(Scheduler)
    /\ \A i \in 1..MaxLinks : WF_vars(Worker(i))

\* download_urls has been entered and has not returned
InDownload == mpc \in {"download", "submit", "collect"}

(* C15: under fair scheduling every call of the HTTP download_urls returns, *)
(* whatever the filtered list, the thread count and the failing attempts.   *)
C15_Termination == (backend = "http" /\ InDownload) ~> SchedulerReturned

C15_Witness ==
    /\ backend = "http"
    /\ mpc = "returned"
    /\ N = 2
    /\ \E i \in Items : Exhausted(i)
    /\ \E i \in Items : resp[i] # "none"

\* download_file of item i has its local file open for writing
Writing(i) == fut[i] \in {"write", "retr"}

(* C17: no two running fetches have the same local file open for writing, *)
(* and no file holds bytes of two bodies.                                  *)
C17_SingleWriter ==
    /\ \A i, j \in Items :
          (i # j /\ Writing(i) /\ Writing(j)) => LocalName(i) # LocalName(j)
    /\ \A b \in LocalNames : files[b].st # "mixed"

(* C19: every HTTP download_file invocation returns normally: no future *)
(* of a run into a writable directory holds an exception.               *)
C19_HttpReturns ==
    (backend = "http" /\ dest = "writable") =>
        \A i \in Items : fut[i] # "raised"

----------------------------------------------------------------------------
(* One downloader instance used as a library: the caller goes on calling  *)
(* its methods after the sequence main makes                              *)

\* the methods a caller that filters after every discovery can call next,
\* besides the one main calls next, once the method before has returned
MethodsAfter(pc) ==
    CASE pc = "filter"   -> {"find"}
      [] pc = "report"   -> {"find", "filter"}
      [] pc = "returned" -> {"find", "filter", "download"}
      [] OTHER           -> {}

\* the caller calls a method of the same instance: the futures, the executor
\* and the progress task of the call before are gone, the attributes of the
\* instance and the files of the directory stay
ApiCall ==
    /\ calls < MaxCalls
    /\ \E m \in MethodsAfter(mpc) : mpc' = m
    /\ calls' = calls + 1
    /\ fut' = <<>> /\ attempts' = <<>> /\ resp' = <<>> /\ fault' = <<>>
    /\ sess' = <<>>
    /\ collected' = {} /\ completed' = 0 /\ events' = 0
    /\ files' = [b \in LocalNames |-> [files[b] EXCEPT !.by = 0]]
    /\ UNCHANGED <<backend, dest, threads, progressbar, err, rootResp,
                   start_url, links, all_urls, filtered_urls, failed_urls,
                   reg_ex, filterReported, openSess, nSess>>

NextApi == Next \/ ApiCall

SpecApi == Init /\ [][NextApi]_vars

(* C16: when a download_urls call returns, failed_urls holds one entry per  *)
(* submission of that call whose attempts were exhausted, and nothing else. *)
C16_FailedPerRun ==
    (backend = "http" /\ SchedulerReturned) =>
        \A u \in {urljoin(RootUrl, h) : h \in Hrefs} :
            Count(failed_urls, u) =
                Cardinality({i \in Items : filtered_urls[i] = u /\ Exhausted(i)})

\* the raw list that the most recent discovery call produced
Discovered == IF rootResp = "ok" THEN all_urls ELSE <<>>

(* C18: whenever a download starts, every item of the filtered list is a *)
(* member of the list the most recent discovery call produced.           *)
C18_NoStale ==
    InDownload =>
        \A i \in 1..N : \E k \in 1..Len(Discovered) :
            filtered_urls[i] = Discovered[k]

====
